---- MODULE Spec2Model ----
(***************************************************************************)
(* The client-side API gateway and the patient chat session of the          *)
(* AL-SHIFA dental system: the axios client of lib/api (request and         *)
(* response interceptors), the credential kept in localStorage, and the     *)
(* PatientChatWidget component (messages, input, loading, handleSend).      *)
(*                                                                          *)
(* Texts are sequences of string fragments: <<>> is the empty string, the   *)
(* fragments of Whitespace are white space.  An optional value (undefined,  *)
(* null, a missing JSON field) is the empty set, a present value v is {v}.  *)
(***************************************************************************)
EXTENDS Integers, Sequences, FiniteSets

VARIABLES
    messages,      \* PatientChatWidget: useState<Message[]>
    input,         \* PatientChatWidget: useState("") of the text field
    loading,       \* PatientChatWidget: useState(false)
    isOpen,        \* PatientChatWidget: useState(false), the window is shown
    now,           \* the reading Date.now() gives
    localStorage,  \* the browser's persisted key-value state
    location,      \* the path the router shows
    network,       \* requests dispatched by the axios client and not settled
    last           \* history: the last handler that ran and what it was given

vars == <<messages, input, loading, isOpen, now, localStorage, location, network, last>>

\* ------------------------------------------------------------------ bounds
MaxTurns == 2          \* accepted sends explored, a few kinds of reply
MaxTurnsAllReplies == 1  \* accepted sends explored, every kind of reply
MaxTurnsSignedIn == 1  \* accepted sends explored while credentials change
MaxClock == 1          \* clock ticks explored
MaxFacadeInFlight == 1 \* facade calls explored at once
MaxTurnsGateway == 1   \* accepted sends explored next to facade calls
MaxGatewayRequests == 1  \* requests in flight at once, chat and facades
MaxTurnsLive == 2      \* accepted sends explored for progress

\* ------------------------------------------------------------- JS helpers
Undefined == {}
Some(v) == {v}
Get(o) == CHOOSE v \in o : TRUE

Whitespace == {" ", "\t", "\n"}

RECURSIVE TrimStart(_)
TrimStart(s) ==
    IF s # <<>> /\ Head(s) \in Whitespace THEN TrimStart(Tail(s)) ELSE s

RECURSIVE TrimEnd(_)
TrimEnd(s) ==
    IF s # <<>> /\ s[Len(s)] \in Whitespace
    THEN TrimEnd(SubSeq(s, 1, Len(s) - 1))
    ELSE s

\* String.prototype.trim
Trim(s) == TrimEnd(TrimStart(s))

\* JS truthiness of a string: only "" is falsy
Truthy(s) == s # <<>>

\* JS truthiness of a value that is undefined/null or a string
TruthyOpt(o) == o # Undefined /\ Truthy(Get(o))

DigitChars == <<"0", "1", "2", "3", "4", "5", "6", "7", "8", "9">>

\* Number.prototype.toString, base 10, of a natural number
RECURSIVE ToString(_)
ToString(n) ==
    IF n < 10
    THEN <<DigitChars[n + 1]>>
    ELSE ToString(n \div 10) \o <<DigitChars[(n % 10) + 1]>>

IsPrefix(s, t) == Len(s) <= Len(t) /\ SubSeq(t, 1, Len(s)) = s

\* -------------------------------------------------------- fixed literals
WelcomeMsg ==
    [id |-> <<"welcome">>,
     role |-> "agent",
     content |-> <<"Hello! I am Dr. AI. How can I help you today? I can schedule appointments, check records, or answer basic questions.">>,
     action |-> Undefined]

NoTextResponse == <<"I processed that, but have no text response.">>

ConnectionTrouble ==
    <<"I'm having trouble connecting to the clinic server. Please try again later.">>

\* ----------------------------------------------------- explored inputs
\* what the user can have typed into the text field
Inputs == {<<>>, <<" ">>, <<"hi">>, <<" ", "book me a slot tomorrow">>}

\* credentials the login flow can store
Tokens == {<<"t1">>, <<"t2">>}

\* bodies the backend can answer /agent/execute with
ReplyBodies ==
    [response_text : {Undefined, Some(<<>>), Some(<<"Here are available slots">>)},
     action_taken  : {Undefined, Some(<<"booking_intent">>), Some(<<"none">>)},
     slots         : {Undefined, Some(<<"S1", "S2">>)}]

\* what the network can hand back for one request: a response with a status
\* and a body (null or an object), or no response at all
RawOutcomes ==
    {[kind |-> "response", status |-> 200, data |-> d] :
        d \in {Undefined} \cup {Some(b) : b \in ReplyBodies}}
    \cup {[kind |-> "response", status |-> s, data |-> Undefined] : s \in {401, 500}}
    \cup {[kind |-> k, status |-> 0, data |-> Undefined] : k \in {"network", "timeout"}}

\* ------------------------------------------------------ transport client
\* axios.create: the defaults every request starts from
BaseConfig(method, url, data) ==
    [method |-> method, url |-> url, data |-> data,
     headers |-> [ContentType |-> <<"application/json">>,
                  Authorization |-> Undefined]]

\* a variant that refuses to send without a credential
RequestInterceptorStrict(config) ==
    LET token == localStorage.token IN
    IF TruthyOpt(token)
    THEN [ok |-> TRUE,
          config |-> [config EXCEPT
                        !.headers.Authorization = Some(<<"Bearer ">> \o Get(token))]]
    ELSE [ok |-> FALSE, config |-> config]

\* api.interceptors.request.use, fulfilled handler (the browser: window is
\* defined).  ok = FALSE would be a rejected request.
RequestInterceptor(config) ==
    LET token == localStorage.token IN
    IF TruthyOpt(token)
    THEN [ok |-> TRUE,
          config |-> [config EXCEPT
                        !.headers.Authorization = Some(<<"Bearer ">> \o Get(token))]]
    ELSE [ok |-> TRUE, config |-> config]

\* axios settles a call: fulfilled for a 2xx response, rejected otherwise
AxiosSettle(raw) ==
    IF raw.kind = "response" /\ raw.status \in 200..299
    THEN [state |-> "fulfilled", status |-> raw.status, data |-> raw.data]
    ELSE [state |-> "rejected", status |-> raw.status, data |-> raw.data]

\* api.interceptors.response.use: responses pass, errors are rejected again;
\* the 401 branch is empty
ResponseInterceptor(settled) == settled

\* a variant that acts on an expired credential: it forgets the token and
\* sends the browser to the login page
ResponseEffectsSignOut(settled) ==
    IF settled.state = "rejected" /\ settled.status = 401
    THEN [localStorage |-> [localStorage EXCEPT !.token = Undefined],
          location |-> "/auth/patient/login"]
    ELSE [localStorage |-> localStorage, location |-> location]

\* api.interceptors.response.use: what the handlers do to the stored
\* credential and to the location (the 401 branch holds only comments)
ResponseEffects(settled) ==
    [localStorage |-> localStorage, location |-> location]

\* ------------------------------------------------------------ chat session
\* a variant that stores the trimmed text
UserMsgTrimmed(userText) ==
    [id |-> ToString(now), role |-> "user", content |-> Trim(userText),
     action |-> Undefined]

UserMsg(userText) ==
    [id |-> ToString(now), role |-> "user", content |-> userText,
     action |-> Undefined]

\* a variant that offers the booking action only when slots came with it
AgentMsgNeedsSlots(data) ==
    [id |-> ToString(now + 1),
     role |-> "agent",
     content |-> IF TruthyOpt(data.response_text)
                 THEN Get(data.response_text)
                 ELSE NoTextResponse,
     action |-> IF data.action_taken = Some(<<"booking_intent">>)
                   /\ data.slots # Undefined
                THEN Some([type |-> "booking_suggestion",
                           label |-> <<"View Available Slots">>,
                           data |-> data.slots])
                ELSE Undefined]

\* a variant that falls back only for a missing field (?? instead of ||)
AgentMsgNullish(data) ==
    [id |-> ToString(now + 1),
     role |-> "agent",
     content |-> IF data.response_text # Undefined
                 THEN Get(data.response_text)
                 ELSE NoTextResponse,
     action |-> IF data.action_taken = Some(<<"booking_intent">>)
                THEN Some([type |-> "booking_suggestion",
                           label |-> <<"View Available Slots">>,
                           data |-> data.slots])
                ELSE Undefined]

\* handleSend step 3: the agent message built from res.data
AgentMsg(data) ==
    [id |-> ToString(now + 1),
     role |-> "agent",
     content |-> IF TruthyOpt(data.response_text)
                 THEN Get(data.response_text)
                 ELSE NoTextResponse,
     action |-> IF data.action_taken = Some(<<"booking_intent">>)
                THEN Some([type |-> "booking_suggestion",
                           label |-> <<"View Available Slots">>,
                           data |-> data.slots])
                ELSE Undefined]

\* handleSend catch block: the message appended on any failure
ErrorMsg ==
    [id |-> ToString(now), role |-> "agent", content |-> ConnectionTrouble,
     action |-> Undefined]

\* a variant whose try block ends before res.data is read: a null body
\* escapes the catch
AfterAwaitReadUncaught(settled) ==
    IF settled.state = "fulfilled"
    THEN IF settled.data # Undefined
         THEN [path |-> "try", appended |-> <<AgentMsg(Get(settled.data))>>,
               rejected |-> FALSE]
         ELSE [path |-> "catch", appended |-> <<>>, rejected |-> TRUE]
    ELSE [path |-> "catch", appended |-> <<ErrorMsg>>, rejected |-> FALSE]

\* handleSend after the await: try (reading res.data of null throws),
\* catch, finally.  The messages appended, and whether handleSend's own
\* promise rejects.
AfterAwait(settled) ==
    IF settled.state = "fulfilled" /\ settled.data # Undefined
    THEN [path |-> "try", appended |-> <<AgentMsg(Get(settled.data))>>,
          rejected |-> FALSE]
    ELSE [path |-> "catch", appended |-> <<ErrorMsg>>, rejected |-> FALSE]

\* a variant that appends to the list as it was when handleSend was called
SetMessagesStale(prev, msg) ==
    IF msg.role = "agent" /\ Len(prev) > 1
    THEN Append(SubSeq(prev, 1, Len(prev) - 1), msg)
    ELSE Append(prev, msg)

\* setMessages(prev => [...prev, msg])
SetMessages(prev, msg) == Append(prev, msg)

RECURSIVE SetAll(_, _)
SetAll(prev, msgs) ==
    IF msgs = <<>> THEN prev ELSE SetAll(SetMessages(prev, Head(msgs)), Tail(msgs))

\* a variant without the finally block: loading stays as it was
FinallyLoadingKept == loading

\* handleSend finally block: setLoading(false)
FinallyLoading == FALSE

NoResult == [state |-> "none"]

NoEvent == [op |-> "none", base |-> 0, text |-> <<>>, raw |-> {},
            wasLoading |-> FALSE, rejected |-> FALSE,
            name |-> "", result |-> NoResult]

Init ==
    /\ messages = <<WelcomeMsg>>
    /\ input = <<>>
    /\ loading = FALSE
    /\ isOpen = FALSE
    /\ now = 9
    /\ localStorage = [token |-> Undefined, role |-> Undefined]
    /\ location = "/"
    /\ network = <<>>
    /\ last = NoEvent

\* the toggle button, and the X of the header
ToggleOpen ==
    /\ isOpen' = ~isOpen
    /\ last' = [NoEvent EXCEPT !.op = "toggle", !.base = Len(messages)]
    /\ UNCHANGED <<messages, input, loading, now, localStorage, location, network>>

\* a variant whose text field stays enabled while loading
OnChangeEnabledAlways == isOpen

\* the text field's onChange; the field is rendered in the open window and
\* is disabled while loading
OnChangeEnabled == isOpen /\ ~loading

OnChange(v) ==
    /\ OnChangeEnabled
    /\ input' = v
    /\ last' = [NoEvent EXCEPT !.op = "change", !.base = Len(messages)]
    /\ UNCHANGED <<messages, loading, isOpen, now, localStorage, location, network>>

\* a variant that tests the text without trimming it
SendAcceptedUntrimmed == Truthy(input)

\* handleSend's guard
SendAccepted == Truthy(Trim(input))

\* the form's onSubmit: handleSend up to the await
HandleSend(maxTurns) ==
    /\ isOpen
    /\ IF ~SendAccepted
       THEN /\ last' = [NoEvent EXCEPT !.op = "send_ignored",
                                       !.base = Len(messages),
                                       !.text = input,
                                       !.wasLoading = loading]
            /\ UNCHANGED <<messages, input, loading, network>>
       ELSE LET userText == input
                sent == RequestInterceptor(
                            BaseConfig("post", "/agent/execute",
                                       [user_query |-> userText,
                                        session_id |-> <<"patient-session-1">>]))
            IN  /\ Len(messages) < 1 + 2 * maxTurns
                /\ input' = <<>>
                /\ IF sent.ok
                   THEN \* the request is on the network, handleSend awaits
                        /\ messages' = SetMessages(messages, UserMsg(userText))
                        /\ loading' = TRUE
                        /\ network' = Append(network,
                                             [caller |-> "chat",
                                              config |-> sent.config,
                                              stored |-> localStorage.token,
                                              base |-> Len(messages)])
                        /\ last' = [NoEvent EXCEPT !.op = "send",
                                                   !.base = Len(messages),
                                                   !.text = userText,
                                                   !.wasLoading = loading]
                   ELSE \* api.post rejects before any dispatch: catch, finally
                        LET out == AfterAwait([state |-> "rejected", status |-> 0,
                                               data |-> Undefined])
                        IN  /\ messages' = SetAll(SetMessages(messages, UserMsg(userText)),
                                                  out.appended)
                            /\ loading' = FinallyLoading
                            /\ network' = network
                            /\ last' = [NoEvent EXCEPT !.op = "send_aborted",
                                                       !.base = Len(messages),
                                                       !.text = userText,
                                                       !.wasLoading = loading,
                                                       !.rejected = out.rejected]
    /\ UNCHANGED <<isOpen, now, localStorage, location>>

Remove(s, i) == SubSeq(s, 1, i - 1) \o SubSeq(s, i + 1, Len(s))

\* the awaited api.post settles and handleSend runs to its end
HandleSettled(i, raw) ==
    /\ i \in DOMAIN network
    /\ network[i].caller = "chat"
    /\ LET settled == ResponseInterceptor(AxiosSettle(raw))
           out == AfterAwait(settled)
       IN  /\ messages' = SetAll(messages, out.appended)
           /\ loading' = FinallyLoading
           /\ last' = [NoEvent EXCEPT
                          !.op = IF out.path = "try" THEN "reply" ELSE "failure",
                          !.base = network[i].base,
                          !.text = network[i].config.data.user_query,
                          !.raw = {raw},
                          !.wasLoading = loading,
                          !.rejected = out.rejected]
           /\ localStorage' = ResponseEffects(settled).localStorage
           /\ location' = ResponseEffects(settled).location
    /\ network' = Remove(network, i)
    /\ UNCHANGED <<input, isOpen, now>>

\* time passes
Tick ==
    /\ now < 9 + MaxClock
    /\ now' = now + 1
    /\ UNCHANGED <<messages, input, loading, isOpen, localStorage, location, network, last>>

\* the login flow stores the credential
Login(tok) ==
    /\ localStorage' = [localStorage EXCEPT !.token = Some(tok)]
    /\ UNCHANGED <<messages, input, loading, isOpen, now, location, network, last>>

\* AdminLayout.handleLogout
AdminLogout ==
    /\ localStorage' = [token |-> Undefined, role |-> Undefined]
    /\ location' = "/auth/role-selection"
    /\ UNCHANGED <<messages, input, loading, isOpen, now, network, last>>

\* DoctorLayout.handleLogout
DoctorLogout ==
    /\ location' = "/auth/role-selection"
    /\ UNCHANGED <<messages, input, loading, isOpen, now, localStorage, network, last>>

\* ------------------------------------------------------------ API facades
\* a request that carries no body
NoBody == [body |-> "none"]

\* the empty object {}
EmptyObject == <<>>

\* AuthAPI.login: form fields username and password, sent as multipart
AuthLogin(email, password) ==
    [BaseConfig("post", "/auth/login",
                [username |-> email, password |-> password])
        EXCEPT !.headers.ContentType = <<"multipart/form-data">>]

\* AuthAPI.register
AuthRegister(userData) == BaseConfig("post", "/auth/register", userData)

\* AuthAPI.getMe
AuthGetMe == BaseConfig("get", "/auth/me", NoBody)

\* AgentAPI.sendMessage(query, context = {}, role = "patient")
AgentSendMessage(query, context, role) ==
    BaseConfig("post", "/agent/execute",
               [user_query |-> query, role |-> role, context |-> context,
                agent_type |-> Undefined])

\* a variant that takes the slot for the patient and the patient for the slot
AgentBookSlotSwapped(slotId, patientId) ==
    BaseConfig("post", "/agent/execute",
               [agent_type |-> Some(<<"appointment">>), intent |-> <<"book">>,
                slot_id |-> patientId, patient_id |-> slotId,
                user_query |-> <<"Confirm booking">>])

\* AgentAPI.bookSlot
AgentBookSlot(slotId, patientId) ==
    BaseConfig("post", "/agent/execute",
               [agent_type |-> Some(<<"appointment">>), intent |-> <<"book">>,
                slot_id |-> slotId, patient_id |-> patientId,
                user_query |-> <<"Confirm booking">>])

\* AgentAPI.askDoctorAssistant
AgentAskDoctorAssistant(query) ==
    BaseConfig("post", "/agent/execute",
               [agent_type |-> Some(<<"router">>), role |-> <<"doctor">>,
                user_query |-> query])

\* DoctorAPI
DoctorGetDashboardStats == BaseConfig("get", "/doctor/dashboard", NoBody)
DoctorGetPatients == BaseConfig("get", "/doctor/patients", NoBody)
DoctorUpdateConfig(config) == BaseConfig("put", "/doctor/config", config)
DoctorGetInventoryMemory == BaseConfig("get", "/agent/memory/inventory", NoBody)

\* explored arguments
Queries == {<<"hi">>, <<"any free slots?">>}
SlotIds == {<<"S1">>, <<"S2">>}
PatientIds == {<<"P1">>, <<"P2">>}
UserData == [email |-> <<"a@clinic">>, password |-> <<"pw">>, role |-> <<"patient">>]
DoctorConfig == [slot_duration |-> 30, break_duration |-> 5,
                 work_start |-> <<"09:00">>, work_end |-> <<"17:00">>]

AgentOps == {"AgentAPI.sendMessage", "AgentAPI.bookSlot", "AgentAPI.askDoctorAssistant"}

\* the calls explored: the operation, its arguments, the request it makes
FacadeCalls ==
    {[name |-> "AuthAPI.login", args |-> <<UserData.email, UserData.password>>,
      config |-> AuthLogin(UserData.email, UserData.password)],
     [name |-> "AuthAPI.register", args |-> <<>>, config |-> AuthRegister(UserData)],
     [name |-> "AuthAPI.getMe", args |-> <<>>, config |-> AuthGetMe],
     [name |-> "DoctorAPI.getDashboardStats", args |-> <<>>,
      config |-> DoctorGetDashboardStats],
     [name |-> "DoctorAPI.getPatients", args |-> <<>>, config |-> DoctorGetPatients],
     [name |-> "DoctorAPI.updateConfig", args |-> <<>>,
      config |-> DoctorUpdateConfig(DoctorConfig)],
     [name |-> "DoctorAPI.getInventoryMemory", args |-> <<>>,
      config |-> DoctorGetInventoryMemory]}
    \cup {[name |-> "AgentAPI.sendMessage", args |-> <<q>>,
           config |-> AgentSendMessage(q, EmptyObject, <<"patient">>)] : q \in Queries}
    \cup {[name |-> "AgentAPI.bookSlot", args |-> <<sl, pa>>,
           config |-> AgentBookSlot(sl, pa)] : sl \in SlotIds, pa \in PatientIds}
    \cup {[name |-> "AgentAPI.askDoctorAssistant", args |-> <<q>>,
           config |-> AgentAskDoctorAssistant(q)] : q \in Queries}

\* a variant that answers a failed call with an empty success
FacadeReturnFallback(name, settled) ==
    IF settled.state = "rejected"
    THEN [state |-> "fulfilled", value |-> [body |-> Undefined], again |-> FALSE]
    ELSE IF name \in AgentOps
         THEN [state |-> "fulfilled", value |-> [body |-> settled.data],
               again |-> FALSE]
         ELSE [state |-> "fulfilled", value |-> settled, again |-> FALSE]

\* a variant that calls again after a failure
FacadeReturnRetry(name, settled) ==
    IF settled.state = "rejected"
    THEN [state |-> "rejected", value |-> settled, again |-> TRUE]
    ELSE IF name \in AgentOps
         THEN [state |-> "fulfilled", value |-> [body |-> settled.data],
               again |-> FALSE]
         ELSE [state |-> "fulfilled", value |-> settled, again |-> FALSE]

\* what a facade operation hands its caller once api.get/post/put settled:
\* AuthAPI and DoctorAPI return the call itself, AgentAPI awaits it and
\* returns response.data; a rejection passes through; nothing is called
\* again
FacadeReturn(name, settled) ==
    IF settled.state = "rejected"
    THEN [state |-> "rejected", value |-> settled, again |-> FALSE]
    ELSE IF name \in AgentOps
         THEN [state |-> "fulfilled", value |-> [body |-> settled.data],
               again |-> FALSE]
         ELSE [state |-> "fulfilled", value |-> settled, again |-> FALSE]

FacadeInFlight == {i \in DOMAIN network : network[i].caller # "chat"}

\* a facade operation is called: the request passes the request
\* interceptor and is dispatched
FacadeCall(call) ==
    /\ Cardinality(FacadeInFlight) < MaxFacadeInFlight
    /\ LET sent == RequestInterceptor(call.config)
       IN  IF sent.ok
           THEN /\ network' = Append(network,
                                     [caller |-> call.name, config |-> sent.config,
                                      stored |-> localStorage.token, base |-> 0])
                /\ last' = [NoEvent EXCEPT !.op = "facade_call",
                                           !.name = call.name,
                                           !.text = call.args]
           ELSE /\ network' = network
                /\ last' = [NoEvent EXCEPT
                               !.op = "facade_return",
                               !.name = call.name,
                               !.text = call.args,
                               !.result = FacadeReturn(call.name,
                                              [state |-> "rejected", status |-> 0,
                                               data |-> Undefined])]
    /\ UNCHANGED <<messages, input, loading, isOpen, now, localStorage, location>>

\* the call of a facade operation settles and the operation returns
FacadeSettled(i, raw) ==
    /\ i \in FacadeInFlight
    /\ LET settled == ResponseInterceptor(AxiosSettle(raw))
           out == FacadeReturn(network[i].caller, settled)
       IN  /\ network' = IF out.again
                         THEN Append(Remove(network, i), network[i])
                         ELSE Remove(network, i)
           /\ last' = [NoEvent EXCEPT
                          !.op = IF out.again THEN "facade_retry" ELSE "facade_return",
                          !.name = network[i].caller,
                          !.raw = {raw},
                          !.result = out]
           /\ localStorage' = ResponseEffects(settled).localStorage
           /\ location' = ResponseEffects(settled).location
    /\ UNCHANGED <<messages, input, loading, isOpen, now>>

\* the chat session, its replies drawn from raws
Session(raws, maxTurns) ==
    \/ ToggleOpen
    \/ \E v \in Inputs : OnChange(v)
    \/ HandleSend(maxTurns)
    \/ \E i \in DOMAIN network, raw \in raws : HandleSettled(i, raw)
    \/ Tick

\* a few kinds of reply: a booking reply, a reply with no fields, a null
\* body, a server error, no connection
SomeOutcomes ==
    {raw \in RawOutcomes :
        \/ raw.kind = "network"
        \/ raw.status = 500
        \/ raw.status = 200 /\ raw.data = Undefined
        \/ raw.status = 200 /\ raw.data # Undefined /\
             Get(raw.data) \in
               {[response_text |-> Some(<<"Here are available slots">>),
                 action_taken |-> Some(<<"booking_intent">>),
                 slots |-> Some(<<"S1", "S2">>)],
                [response_text |-> Undefined, action_taken |-> Undefined,
                 slots |-> Undefined]}}

Next == Session(SomeOutcomes, MaxTurns)

Spec == Init /\ [][Next]_vars

NextAllReplies == Session(RawOutcomes, MaxTurnsAllReplies)

SpecAllReplies == Init /\ [][NextAllReplies]_vars

\* the same, and the answer to an expired credential
SignedInOutcomes == SomeOutcomes \cup {raw \in RawOutcomes : raw.status = 401}

\* the facades, called while credentials change
NextFacade ==
    \/ \E call \in FacadeCalls : FacadeCall(call)
    \/ \E i \in DOMAIN network, raw \in SignedInOutcomes : FacadeSettled(i, raw)
    \/ \E tok \in Tokens : Login(tok)
    \/ AdminLogout
    \/ DoctorLogout

SpecFacade == Init /\ [][NextFacade]_vars

NextSignedIn ==
    \/ Session(SignedInOutcomes, MaxTurnsSignedIn)
    \/ \E tok \in Tokens : Login(tok)
    \/ AdminLogout
    \/ DoctorLogout

SpecSignedIn == Init /\ [][NextSignedIn]_vars

\* the chat session next to the Agent facade, a credential being stored
GatewayOutcomes ==
    {raw \in SignedInOutcomes :
        \/ raw.status = 401
        \/ raw.status = 200 /\ raw.data # Undefined /\ Get(raw.data).slots # Undefined}

GatewayCalls ==
    {c \in FacadeCalls :
        \/ c.name = "AgentAPI.bookSlot"
        \/ c.name \in AgentOps /\ c.args = <<<<"hi">>>>}

NextGateway ==
    \/ \E call \in GatewayCalls :
          Len(network) < MaxGatewayRequests /\ FacadeCall(call)
    \/ \E i \in DOMAIN network, raw \in GatewayOutcomes : FacadeSettled(i, raw)
    \/ Login(<<"t1">>)
    \/ ToggleOpen
    \/ \E v \in Inputs : OnChange(v)
    \/ (loading \/ Len(network) < MaxGatewayRequests) /\ HandleSend(MaxTurnsGateway)
    \/ \E i \in DOMAIN network, raw \in GatewayOutcomes : HandleSettled(i, raw)

SpecGateway == Init /\ [][NextGateway]_vars

\* the chat session whose every request is answered in the end
SettleSome == \E i \in DOMAIN network, raw \in SomeOutcomes : HandleSettled(i, raw)

NextLive ==
    \/ ToggleOpen
    \/ \E v \in Inputs : OnChange(v)
    \/ HandleSend(MaxTurnsLive)
    \/ SettleSome

SpecLive == Init /\ [][NextLive]_vars /\ WF_vars(SettleSome)

\* ------------------------------------------------------------ properties
ChatInFlight == {i \in DOMAIN network : network[i].caller = "chat"}

\* the raw outcome and the JSON body the last settled request was given
LastRaw == Get(last.raw)
LastBody == Get(LastRaw.data)
LastMsg == messages[Len(messages)]

\* C1: a send invoked while loading is true is a no-op: the log, the
\* requests in flight, the text field and loading itself are left as they
\* were.
C1_SendWhilePendingIsNoOp ==
    [][(loading /\ HandleSend(MaxTurns))
          => (/\ messages' = messages
              /\ network' = network
              /\ input' = input
              /\ loading' = loading)]_vars

\* a send was invoked while a request was in flight, and was ignored
C1_Witness ==
    /\ last.op = "send_ignored"
    /\ last.wasLoading
    /\ Len(network) = 1
    /\ Len(messages) = last.base

\* C2: the chat session never has more than one agent request dispatched
\* and not yet settled.
C2_AtMostOneInFlight == Cardinality(ChatInFlight) <= 1

\* a second turn's request is in flight after the first was settled
C2_Witness == Len(messages) = 4 /\ Cardinality(ChatInFlight) = 1 /\ loading

\* C3: a turn whose call resolves and whose reply is read grows the log by
\* exactly two messages: the user message with the sent text, then one
\* agent message with the reply's text or the placeholder.
C3_SuccessfulTurnAppendsTwo ==
    last.op = "reply" =>
        /\ Len(messages) = last.base + 2
        /\ messages[last.base + 1].role = "user"
        /\ messages[last.base + 1].content = last.text
        /\ messages[last.base + 1].action = Undefined
        /\ messages[last.base + 2].role = "agent"
        /\ messages[last.base + 2].content
              \in LastBody.response_text \cup {NoTextResponse}
        /\ messages[last.base + 2].content # ConnectionTrouble

\* a reply was handled for a text sent with leading white space
C3_Witness ==
    /\ last.op = "reply"
    /\ last.text = <<" ", "book me a slot tomorrow">>
    /\ Len(messages) = 3

\* C4: a turn whose call fails (no connection, timeout, a status outside
\* 2xx, a body that cannot be read) grows the log by exactly two messages:
\* the user message, then the connectivity apology with no action; loading
\* is false afterwards and handleSend's promise does not reject.
C4_FailedTurnAppendsApology ==
    /\ last.op = "failure" =>
          /\ Len(messages) = last.base + 2
          /\ messages[last.base + 1].role = "user"
          /\ messages[last.base + 1].content = last.text
          /\ messages[last.base + 2].role = "agent"
          /\ messages[last.base + 2].content = ConnectionTrouble
          /\ messages[last.base + 2].action = Undefined
          /\ ~loading
    /\ ~last.rejected

\* a 200 response whose body is null was handled as a failure
C4_Witness ==
    /\ last.op = "failure"
    /\ LastRaw.status = 200
    /\ LastMsg.content = ConnectionTrouble

\* C5: after the welcome message the roles alternate user, agent, user,
\* agent: the messages of one turn are never interleaved with another's.
C5_RolesAlternate ==
    \A i \in DOMAIN messages :
        messages[i].role = IF i % 2 = 1 THEN "agent" ELSE "user"

\* two whole turns are in the log
C5_Witness == Len(messages) = 5 /\ ~loading

\* C6: no two messages of the log have the same id.
C6_UniqueIds ==
    \A i, j \in DOMAIN messages : i # j => messages[i].id # messages[j].id

\* C7: every step leaves the log as it was or appends to it.
C7_AppendOnly == [][IsPrefix(messages, messages')]_vars

\* two turns were appended and the window was toggled afterwards
C7_Witness == Len(messages) = 5 /\ last.op = "toggle"

\* C8: the agent message of a reply carries an action exactly when
\* action_taken is "booking_intent", whatever slots is; the action is a
\* booking_suggestion whose data is the reply's slots.
C8_ActionFollowsActionTaken ==
    last.op = "reply" =>
        /\ (LastMsg.action # Undefined)
              <=> (LastBody.action_taken = Some(<<"booking_intent">>))
        /\ LastMsg.action # Undefined =>
              /\ Get(LastMsg.action).type = "booking_suggestion"
              /\ Get(LastMsg.action).data = LastBody.slots

\* a booking_intent reply without slots produced an action
C8_Witness ==
    /\ last.op = "reply"
    /\ LastBody.action_taken = Some(<<"booking_intent">>)
    /\ LastBody.slots = Undefined
    /\ LastMsg.action # Undefined

C10_WitnessNoCredential ==
    \E i \in DOMAIN network :
        /\ network[i].stored = Undefined
        /\ network[i].config.headers.Authorization = Undefined

\* the answer to an expired credential
Raw401 == [kind |-> "response", status |-> 401, data |-> Undefined]

\* what the transport client hands a caller for a raw outcome
Transport(raw) == ResponseInterceptor(AxiosSettle(raw))

\* C11: a 401 response reaches the caller as a rejected call, and handling
\* it leaves the stored credential and the location as they were.
C11_Unauthorized401IsOnlyReported ==
    [][\A i \in DOMAIN network :
          FacadeSettled(i, Raw401)
              => /\ last'.op = "facade_return"
                 /\ last'.result.state = "rejected"
                 /\ last'.result.value.status = 401
                 /\ localStorage' = localStorage
                 /\ location' = location]_vars

\* a facade call made with a credential was answered 401 and the
\* credential is still stored
C11_Witness ==
    /\ last.op = "facade_return"
    /\ LastRaw = Raw401
    /\ last.result.state = "rejected"
    /\ localStorage.token # Undefined

\* C12: after Sign Out in the admin layout or in the doctor layout no
\* credential remains stored.
C12_LogoutClearsCredential ==
    [][(AdminLogout \/ DoctorLogout) => localStorage'.token = Undefined]_vars

\* C13: no step of the chat session, of the Agent facade or of the
\* interceptors writes or clears the stored credential.
C13_CredentialOnlyWrittenByAuth ==
    [][(\/ HandleSend(MaxTurnsGateway)
        \/ \E i \in DOMAIN network, raw \in GatewayOutcomes : HandleSettled(i, raw)
        \/ \E call \in GatewayCalls : FacadeCall(call)
        \/ \E i \in DOMAIN network, raw \in GatewayOutcomes : FacadeSettled(i, raw))
          => localStorage' = localStorage]_vars

\* a chat request dispatched with a credential was answered 401 and the
\* credential is still stored
C13_Witness ==
    /\ last.op = "failure"
    /\ LastRaw = Raw401
    /\ localStorage.token = Some(<<"t1">>)

\* C14: the request the chat session dispatches for a text is the request
\* AgentAPI.sendMessage makes for that text: user_query, role, context and
\* agent_type: null.
C14_ChatRequestIsSendMessageRequest ==
    \A i \in ChatInFlight :
        network[i].config =
            RequestInterceptor(
                AgentSendMessage(network[i].config.data.user_query,
                                 EmptyObject, <<"patient">>)).config

\* C15: AgentAPI.bookSlot(slotId, patientId) dispatches exactly one POST to
\* /agent/execute with agent_type "appointment", intent "book", slot_id =
\* slotId and patient_id = patientId, whatever was called or said before.
C15_BookSlotRequest ==
    [][\A call \in GatewayCalls :
          (call.name = "AgentAPI.bookSlot" /\ FacadeCall(call))
              => /\ Len(network') = Len(network) + 1
                 /\ SubSeq(network', 1, Len(network)) = network
                 /\ LET sent == network'[Len(network')].config
                    IN  /\ sent.method = "post"
                        /\ sent.url = "/agent/execute"
                        /\ sent.data.agent_type = Some(<<"appointment">>)
                        /\ sent.data.intent = <<"book">>
                        /\ sent.data.slot_id = call.args[1]
                        /\ sent.data.patient_id = call.args[2]]_vars

\* bookSlot was called after a whole chat turn
C15_Witness ==
    /\ last.op = "facade_call"
    /\ last.name = "AgentAPI.bookSlot"
    /\ last.text = <<<<"S1">>, <<"P2">>>>
    /\ Len(messages) = 3
    /\ Len(network) = 1

FacadeStepsDispatchOnce ==
    /\ \A call \in FacadeCalls :
          FacadeCall(call) => Len(network') = Len(network) + 1
    /\ \A i \in DOMAIN network, raw \in SignedInOutcomes :
          FacadeSettled(i, raw)
              => Len(network') = Len(network) - 1 /\ last'.op = "facade_return"

\* C16 as stated: one call per invocation, and the caller gets the
\* transport client's outcome unchanged: the same failure, or the response.
C16_FacadeReturnsTransportOutcome ==
    /\ [](last.op = "facade_return" /\ last.raw # {} =>
            /\ last.result.state = Transport(LastRaw).state
            /\ last.result.value = Transport(LastRaw))
    /\ [][FacadeStepsDispatchOnce]_vars

\* C16 amended: one call per invocation and no second one; a failure
\* reaches the caller as that failure; a success reaches the caller as the
\* response for AuthAPI and DoctorAPI and as the response's data for
\* AgentAPI.
C16_FacadeReturnsOutcomeOrData ==
    /\ [](last.op = "facade_return" /\ last.raw # {} =>
            /\ last.result.state = Transport(LastRaw).state
            /\ last.result.value =
                  IF Transport(LastRaw).state = "fulfilled" /\ last.name \in AgentOps
                  THEN [body |-> Transport(LastRaw).data]
                  ELSE Transport(LastRaw))
    /\ [][FacadeStepsDispatchOnce]_vars

\* a facade call failed and its caller was handed the failure
C16_Witness ==
    /\ last.op = "facade_return"
    /\ last.name = "DoctorAPI.updateConfig"
    /\ LastRaw.kind = "network"
    /\ last.result.state = "rejected"
    /\ network = <<>>

Blank(text) == \A k \in DOMAIN text : text[k] \in Whitespace

\* C17: a send of an empty or white-space text changes nothing; a send of
\* any other text while idle appends the user message and sets loading in
\* the same step.
C17_BlankSendIgnoredOtherAccepted ==
    [][HandleSend(MaxTurns) =>
          IF Blank(input)
          THEN /\ messages' = messages
               /\ network' = network
               /\ loading' = loading
          ELSE ~loading =>
                 /\ Len(messages') = Len(messages) + 1
                 /\ SubSeq(messages', 1, Len(messages)) = messages
                 /\ messages'[Len(messages')].role = "user"
                 /\ messages'[Len(messages')].content = input
                 /\ loading'
                 /\ Len(network') = Len(network) + 1]_vars

\* a send of white space only was ignored while idle
C17_Witness ==
    /\ last.op = "send_ignored"
    /\ last.text = <<" ">>
    /\ ~last.wasLoading
    /\ ~loading

\* C18: every accepted send is followed by a return to idle, with exactly
\* one agent message appended for the turn, and an idle session accepts
\* the next send.
C18_TurnEnds ==
    /\ loading ~> ~loading
    /\ [](last.op \in {"reply", "failure"} =>
            /\ ~loading
            /\ Len(messages) = last.base + 2
            /\ messages[last.base + 2].role = "agent")
    /\ [][(HandleSend(MaxTurnsLive) /\ ~loading /\ ~Blank(input)) => loading']_vars

\* a second turn has ended
C18_Witness ==
    /\ last.op \in {"reply", "failure"}
    /\ Len(messages) = 5
    /\ ~loading

\* C19: loading is true exactly while an agent request is in flight, and
\* exactly while the last message of the log is a user message.
C19_LoadingIffInFlightIffUserLast ==
    /\ loading <=> (ChatInFlight # {})
    /\ loading <=> (LastMsg.role = "user")

\* the second turn's request is in flight
C19_Witness ==
    /\ loading
    /\ Len(messages) = 4
    /\ LastMsg.role = "user"
    /\ Cardinality(ChatInFlight) = 1

====
